---- MODULE Spec2Model ----
(***************************************************************************)
(* A state-machine model of three parts of protocompile:                   *)
(*   - ast.FileInfo, the table of lines, tokens and comments a lexer       *)
(*     builds, with the token and comment accessors;                       *)
(*   - the resolvers (CompositeResolver, SourceResolver,                   *)
(*     WithStandardImports);                                               *)
(*   - the compiler's task orchestration.                                  *)
(* Go slices are zero-based; the sequences below are one-based, and the    *)
(* indices stored in records keep Go's zero-based values (see At).         *)
(***************************************************************************)
EXTENDS Integers, Sequences, FiniteSets, TLC

\* ------------------------------------------------------------------ bounds
\* Longest byte buffer handed to NewFileInfo.
MaxLen == 4
\* Most tokens added to one FileInfo.
MaxTokens == 3
\* Longest token length passed to AddToken.
MaxTokLen == 2
\* Most tokens added to a FileInfo whose positions are asked for.
MaxPosTokens == 2

\* ------------------------------------------------------------ FileInfo state
VARIABLES
    data,       \* FileInfo.data: the file's bytes
    lines,      \* FileInfo.lines: offset of each line
    tokens,     \* FileInfo.tokens: sequence of tokenInfo
    comments,   \* FileInfo.comments: sequence of commentInfo
    outcome     \* how the last call on the FileInfo ended: "ok" or "panic"

fvars == <<data, lines, tokens, comments, outcome>>

\* The byte values files are built from: a tab and a letter.
Bytes == {9, 97}
\* Files without tabs.
PlainBytes == {97}

\* The zero-based element s[i] of a Go slice.
At(s, i) == s[i + 1]

RECURSIVE SeqsUpTo(_, _)
\* All sequences over S of length at most n.
SeqsUpTo(S, n) ==
    IF n = 0 THEN {<<>>}
    ELSE LET shorter == SeqsUpTo(S, n - 1)
         IN shorter \cup {Append(s, x) : s \in {t \in shorter : Len(t) = n - 1}, x \in S}

tokenInfo(offset, length) == [offset |-> offset, length |-> length]
commentInfo(index, attributedToken) == [index |-> index, attributedToken |-> attributedToken]

\* NewFileInfo(filename, contents)
NewFileInfo(contents) ==
    /\ data = contents
    /\ lines = <<0>>
    /\ tokens = <<>>
    /\ comments = <<>>
    /\ outcome = "ok"

\* ------------------------------------------------------------------- AddLine
\* An AddLine that does not compare the offset with the last line's.
AddLinePanicsNoOrder(offset) == offset < 0 \/ offset > Len(data)

\* The conditions under which AddLine(offset) panics.
AddLinePanics(offset) ==
    \/ offset < 0
    \/ offset > Len(data)
    \/ /\ Len(lines) > 0
       /\ LET lastOffset == At(lines, Len(lines) - 1)
          IN offset <= lastOffset

AddLine(offset) ==
    IF AddLinePanics(offset)
    THEN /\ outcome' = "panic"
         /\ UNCHANGED <<data, lines, tokens, comments>>
    ELSE /\ lines' = Append(lines, offset)
         /\ outcome' = "ok"
         /\ UNCHANGED <<data, tokens, comments>>

\* ------------------------------------------------------------------ AddToken
\* The conditions under which AddToken(offset, length) panics.
AddTokenPanics(offset, length) ==
    \/ offset < 0
    \/ length < 0
    \/ offset + offset > Len(data)
    \/ /\ Len(tokens) > 0
       /\ LET lastToken == At(tokens, Len(tokens) - 1)
              lastEnd == lastToken.offset + lastToken.length - 1
          IN offset <= lastEnd

\* An AddToken that puts the new token in the place of a zero-length last
\* token.
AddTokenOverwrite(offset, length) ==
    IF AddTokenPanics(offset, length)
    THEN /\ outcome' = "panic"
         /\ UNCHANGED <<data, lines, tokens, comments>>
    ELSE /\ tokens' = IF Len(tokens) > 0 /\ At(tokens, Len(tokens) - 1).length = 0
                      THEN [tokens EXCEPT ![Len(tokens)] = tokenInfo(offset, length)]
                      ELSE Append(tokens, tokenInfo(offset, length))
         /\ outcome' = "ok"
         /\ UNCHANGED <<data, lines, comments>>

AddToken(offset, length) ==
    IF AddTokenPanics(offset, length)
    THEN /\ outcome' = "panic"
         /\ UNCHANGED <<data, lines, tokens, comments>>
    ELSE /\ tokens' = Append(tokens, tokenInfo(offset, length))
         /\ outcome' = "ok"
         /\ UNCHANGED <<data, lines, comments>>

\* ---------------------------------------------------------------- AddComment
\* A TokenInfo_ handle: own says whether its fileInfo is this FileInfo.
TokenInfo_(own, index) == [own |-> own, index |-> index]

\* An AddComment that does not compare the attribution with the last one.
AddCommentPanicsNoAttribution(comment, attributedTo) ==
    \/ ~comment.own
    \/ ~attributedTo.own
    \/ /\ Len(comments) > 0
       /\ comment.index <= At(comments, Len(comments) - 1).index

AddCommentPanics(comment, attributedTo) ==
    \/ ~comment.own
    \/ ~attributedTo.own
    \/ /\ Len(comments) > 0
       /\ LET lastComment == At(comments, Len(comments) - 1)
          IN \/ comment.index <= lastComment.index
             \/ attributedTo.index < lastComment.attributedToken

AddComment(comment, attributedTo) ==
    IF AddCommentPanics(comment, attributedTo)
    THEN /\ outcome' = "panic"
         /\ UNCHANGED <<data, lines, tokens, comments>>
    ELSE /\ comments' = Append(comments, commentInfo(comment.index, attributedTo.index))
         /\ outcome' = "ok"
         /\ UNCHANGED <<data, lines, tokens>>

\* The handles a caller can hold: those AddToken returned, and handles of
\* another FileInfo.
Handles ==
    {TokenInfo_(TRUE, i) : i \in 0 .. Len(tokens) - 1} \cup {TokenInfo_(FALSE, 0)}

\* ------------------------------------------------------------- sort.Search
RECURSIVE SearchLoop(_, _, _)
\* The loop of sort.Search over [i, j); pred[h] is the callback's answer at h.
SearchLoop(i, j, pred) ==
    IF i < j
    THEN LET h == (i + j) \div 2
         IN IF ~pred[h] THEN SearchLoop(h + 1, j, pred) ELSE SearchLoop(i, h, pred)
    ELSE i

SortSearch(n, pred) == SearchLoop(0, n, pred)

\* --------------------------------------------- LeadingComments, TrailingComments
\* A Comments range; Comments{} is the zero value.
Comments(first, num) == [first |-> first, num |-> num]
NoComments == Comments(0, 0)

RECURSIVE CountLeading(_, _, _)
\* The counting loop of LeadingComments from comment i on.
CountLeading(t, tokOffset, i) ==
    IF i < Len(comments)
    THEN LET comment == At(comments, i)
         IN IF /\ comment.attributedToken = t
               /\ At(tokens, comment.index).offset < tokOffset
            THEN 1 + CountLeading(t, tokOffset, i + 1)
            ELSE 0
    ELSE 0

\* A LeadingComments that returns the first comment attributed to t without
\* counting and without comparing offsets.
LeadingCommentsFirstOnly(t) ==
    LET n == Len(comments)
        start == SortSearch(n, [k \in 0 .. n - 1 |-> At(comments, k).attributedToken >= t])
    IN IF start = n \/ At(comments, start).attributedToken # t
       THEN NoComments
       ELSE Comments(start, 1)

LeadingComments(t) ==
    LET n == Len(comments)
        start == SortSearch(n, [k \in 0 .. n - 1 |-> At(comments, k).attributedToken >= t])
    IN IF start = n \/ At(comments, start).attributedToken # t
       THEN NoComments
       ELSE Comments(start, CountLeading(t, At(tokens, t).offset, start))

RECURSIVE CountTrailing(_, _)
\* The counting loop of TrailingComments from comment i on.
CountTrailing(t, i) ==
    IF i < Len(comments)
    THEN IF At(comments, i).attributedToken = t
         THEN 1 + CountTrailing(t, i + 1)
         ELSE 0
    ELSE 0

\* TrailingPred without its offset test: the search then stops at the first
\* comment attributed to t, a leading one included.
TrailingPredNoOffset(t, k) == At(comments, k).attributedToken >= t

\* The callback TrailingComments hands to sort.Search.
TrailingPred(t, k) ==
    LET comment == At(comments, k)
    IN /\ comment.attributedToken >= t
       /\ At(tokens, comment.index).offset > At(tokens, t).offset

TrailingComments(t) ==
    LET n == Len(comments)
        start == SortSearch(n, [k \in 0 .. n - 1 |-> TrailingPred(t, k)])
    IN IF start = n \/ At(comments, start).attributedToken # t
       THEN NoComments
       ELSE Comments(start, CountTrailing(t, start))

\* ------------------------------------------------- LeadingWhitespace, RawText
\* The result of a call that returns a string or panics.
Text(bytes) == [ok |-> TRUE, text |-> bytes]
Panicked == [ok |-> FALSE, text |-> <<>>]

\* The Go slice expression data[lo:hi]; cap(data) is taken to be len(data).
DataSlice(lo, hi) ==
    IF 0 <= lo /\ lo <= hi /\ hi <= Len(data)
    THEN Text(SubSeq(data, lo + 1, hi))
    ELSE Panicked

\* tokens[index-1].offset + tokens[index-1].length, or 0 for the first token.
PrevEnd(index) ==
    IF index > 0
    THEN At(tokens, index - 1).offset + At(tokens, index - 1).length
    ELSE 0

\* TokenInfo_.LeadingWhitespace of the token with this index.
LeadingWhitespace(index) ==
    DataSlice(PrevEnd(index), At(tokens, index).offset)

\* TokenInfo_.RawText of the token with this index.
RawText(index) ==
    LET tok == At(tokens, index)
    IN DataSlice(tok.offset, tok.offset + tok.length)

\* Comment_.LeadingWhitespace and Comment_.RawText of comment c.
CommentLeadingWhitespace(c) == DataSlice(PrevEnd(At(comments, c).index),
                                         At(tokens, At(comments, c).index).offset)
CommentRawText(c) ==
    LET tok == At(tokens, At(comments, c).index)
    IN DataSlice(tok.offset, tok.offset + tok.length)

\* Writing b after a into the buffer; a panic ends the printing.
Write(a, b) == IF a.ok /\ b.ok THEN Text(a.text \o b.text) ELSE Panicked

RECURSIVE PrintComments(_, _, _)
\* printComments: comments.Index(i) for i from i to Len()-1, written after w.
PrintComments(w, range, i) ==
    IF i < range.num
    THEN LET c == range.first + i
         IN PrintComments(Write(Write(w, CommentLeadingWhitespace(c)), CommentRawText(c)),
                          range, i + 1)
    ELSE w

\* Whether token index was registered as a comment.
IsComment(index) == \E k \in 0 .. Len(comments) - 1 : At(comments, k).index = index

\* The visit of one terminal node by printAST.
PrintToken(w, index) ==
    LET w1 == PrintComments(w, LeadingComments(index), 0)
        w2 == Write(w1, LeadingWhitespace(index))
        w3 == Write(w2, RawText(index))
    IN PrintComments(w3, TrailingComments(index), 0)

RECURSIVE PrintFrom(_, _)
\* printAST over the terminal nodes (the tokens that are not comments) from
\* token index on, in file order.
PrintFrom(w, index) ==
    IF index < Len(tokens)
    THEN PrintFrom(IF IsComment(index) THEN w ELSE PrintToken(w, index), index + 1)
    ELSE w

PrintAST == PrintFrom(Text(<<>>), 0)

\* ----------------------------------------------------------- pos, Start, End
VARIABLES
    queried,    \* the offset last handed to pos, if any: <<>> or <<offset>>
    sourcePos   \* the SourcePos that call returned

pvars == <<queried, sourcePos>>

\* SourcePos{Offset, Line, Col}; a call that panics returns none.
SourcePos(offset, line, col) == [ok |-> TRUE, Offset |-> offset, Line |-> line, Col |-> col]
NoPos == [ok |-> FALSE, Offset |-> 0, Line |-> 0, Col |-> 0]

\* A tab that always moves eight columns on.
NextTabStopFixed(col) == 8

\* nextTabStop for the zero-based column col.
NextTabStop(col) == 8 - (col % 8)

RECURSIVE ColLoop(_, _, _)
\* The column loop of pos from byte i on; -1 when it reads outside data.
ColLoop(i, offset, col) ==
    IF i < offset
    THEN IF i < 0 \/ i >= Len(data)
         THEN -1
         ELSE ColLoop(i + 1, offset,
                      IF At(data, i) = 9 THEN col + NextTabStop(col) ELSE col + 1)
    ELSE col

\* f.pos(offset)
Pos(offset) ==
    LET n == Len(lines)
        lineNumber == SortSearch(n, [k \in 0 .. n - 1 |-> At(lines, k) > offset])
    IN IF lineNumber - 1 < 0 \/ lineNumber - 1 >= n
       THEN NoPos
       ELSE LET col == ColLoop(At(lines, lineNumber - 1), offset, 0)
            IN IF col < 0 THEN NoPos ELSE SourcePos(offset, lineNumber, col + 1)

\* TokenInfo_.Start and TokenInfo_.End of the token with this index.
Start(index) == Pos(At(tokens, index).offset)
End(index) == Pos(At(tokens, index).offset + At(tokens, index).length - 1)

\* A consumer asks for the position of an offset.
PosCall(offset) ==
    /\ queried' = <<offset>>
    /\ sourcePos' = Pos(offset)
    /\ outcome' = IF Pos(offset).ok THEN "ok" ELSE "panic"
    /\ UNCHANGED <<data, lines, tokens, comments>>

\* No position asked for yet.
PosIdle == queried = <<>> /\ sourcePos = NoPos

\* ------------------------------------------------ claims about FileInfo
TokenIdx == 0 .. Len(tokens) - 1
CommentIdx == 0 .. Len(comments) - 1
Offset(index) == At(tokens, index).offset

\* The comment indices of a Comments range.
RangeSet(range) == {range.first + i : i \in 0 .. range.num - 1}

\* The FileInfo is one a lexer built: every comment is attributed to a token
\* that is not a comment, and only comments lie between the two.
LexerBuilt ==
    /\ Len(tokens) > 0
    /\ \A k \in CommentIdx :
          LET c == At(comments, k)
              lo == IF c.index < c.attributedToken THEN c.index ELSE c.attributedToken
              hi == IF c.index < c.attributedToken THEN c.attributedToken ELSE c.index
          IN /\ ~IsComment(c.attributedToken)
             /\ \A i \in lo + 1 .. hi - 1 : IsComment(i)

\* How many terminal nodes print comment k.
TimesPrinted(k) ==
    Cardinality({t \in TokenIdx : /\ ~IsComment(t)
                                  /\ k \in RangeSet(LeadingComments(t))
                                           \cup RangeSet(TrailingComments(t))})

\* C1: printing a lexer-built FileInfo - for every token that is not a
\* comment, in index order, its leading comments, its leading whitespace, its
\* raw text and its trailing comments - yields data[0 .. end of the last
\* token], and every comment is printed exactly once.
C1_RoundTrip ==
    LexerBuilt =>
        /\ PrintAST.ok
        /\ PrintAST = DataSlice(0, PrevEnd(Len(tokens)))
        /\ \A k \in CommentIdx : TimesPrinted(k) = 1

\* C2: every recorded token lies inside the file: 0 <= offset and
\* offset + length <= len(data).
C2_TokenBounds ==
    \A i \in TokenIdx :
        /\ 0 <= At(tokens, i).offset
        /\ At(tokens, i).offset + At(tokens, i).length <= Len(data)

\* C3: every comment is in exactly one of the leading and the trailing
\* comments of the token it is attributed to - leading iff its offset is less
\* than the token's, trailing otherwise - and neither range of a token holds a
\* comment attributed to another token.
C3_LeadingTrailingPartition ==
    /\ \A k \in CommentIdx :
          LET c == At(comments, k)
              leading == k \in RangeSet(LeadingComments(c.attributedToken))
              trailing == k \in RangeSet(TrailingComments(c.attributedToken))
          IN /\ leading <=> Offset(c.index) < Offset(c.attributedToken)
             /\ trailing <=> ~(Offset(c.index) < Offset(c.attributedToken))
    /\ \A t \in TokenIdx :
          \A k \in RangeSet(LeadingComments(t)) \cup RangeSet(TrailingComments(t)) :
              k \in CommentIdx /\ At(comments, k).attributedToken = t

\* The comments attributed to t that start after it.
TrailingOf(t) ==
    {k \in CommentIdx : /\ At(comments, k).attributedToken = t
                        /\ Offset(At(comments, k).index) > Offset(t)}
\* The comments attributed to t that start before it.
LeadingOf(t) ==
    {k \in CommentIdx : /\ At(comments, k).attributedToken = t
                        /\ Offset(At(comments, k).index) < Offset(t)}

\* C4: TrailingComments of every token t is exactly the range of the comments
\* attributed to t whose offset is greater than t's: all of them when t has no
\* leading comments, none when t has only leading comments.
C4_TrailingExact ==
    \A t \in TokenIdx :
        LET range == TrailingComments(t)
        IN /\ RangeSet(range) = TrailingOf(t)
           /\ range.num = Cardinality(TrailingOf(t))

\* C4 witness: a token with trailing comments and no leading ones, all of
\* them returned.
C4_Witness ==
    \E t \in TokenIdx :
        /\ LeadingOf(t) = {}
        /\ Cardinality(TrailingOf(t)) > 1
        /\ TrailingComments(t).num = Cardinality(TrailingOf(t))

\* C15: LeadingComments of every token t is exactly the range of the comments
\* attributed to t whose offset is less than t's, a contiguous run of the
\* comment table: empty when no comment is attributed to t and when the first
\* comment attributed to t is not before it.
C15_LeadingExact ==
    \A t \in TokenIdx :
        LET range == LeadingComments(t)
        IN /\ RangeSet(range) = LeadingOf(t)
           /\ range.num = Cardinality(LeadingOf(t))
           /\ range.num >= 0

\* C15 witness: a token with a leading comment and a trailing one; the
\* leading one alone is returned.
C15_Witness ==
    \E t \in TokenIdx :
        /\ Cardinality(LeadingOf(t)) = 1
        /\ TrailingOf(t) # {}
        /\ LeadingComments(t).num = 1
        /\ RangeSet(LeadingComments(t)) = LeadingOf(t)

\* The comment table in cs: token indices strictly increasing, attribution
\* indices nondecreasing.
CommentsOrdered(cs) ==
    \A k \in 1 .. Len(cs) - 1 :
        /\ cs[k].index < cs[k + 1].index
        /\ cs[k].attributedToken <= cs[k + 1].attributedToken

\* When AddComment fails, and the order of the comment table.
C18_Table ==
    /\ \A comment \in Handles, attributedTo \in Handles :
          AddCommentPanics(comment, attributedTo) <=>
              \/ ~comment.own
              \/ ~attributedTo.own
              \/ /\ comments # <<>>
                 /\ \/ comment.index <= comments[Len(comments)].index
                    \/ attributedTo.index < comments[Len(comments)].attributedToken
    /\ CommentsOrdered(comments)

\* A step that changes the comment table appends one comment, whose two
\* indices are tokens of this FileInfo, and leaves the tokens alone.
C18_Step ==
    comments' # comments =>
        /\ tokens' = tokens
        /\ Len(comments') = Len(comments) + 1
        /\ SubSeq(comments', 1, Len(comments)) = comments
        /\ comments'[Len(comments')].index \in TokenIdx
        /\ comments'[Len(comments')].attributedToken \in TokenIdx

\* C18: AddComment fails exactly when a handle belongs to another FileInfo,
\* when the comment's token index is not greater than the last recorded
\* comment's, or when the attribution index is less than the last recorded
\* one; so in every state the comment token indices are strictly increasing
\* and the attribution indices nondecreasing; and every step that changes the
\* comment table appends one comment and leaves the tokens alone.
C18_CommentTable == []C18_Table /\ [][C18_Step]_fvars

\* C18 witness: two comments are recorded, attributed to the same token, and
\* the AddComment that followed failed.
C18_Witness ==
    /\ Len(comments) = 2
    /\ comments[1].attributedToken = comments[2].attributedToken
    /\ comments[1].index < comments[2].index
    /\ Len(tokens) = MaxTokens
    /\ outcome = "panic"

\* C23: a token that was registered as a comment has no comments attributed
\* to it: its LeadingComments and its TrailingComments are both empty.
C23_CommentsHaveNoComments ==
    \A t \in TokenIdx :
        IsComment(t) =>
            /\ LeadingComments(t).num = 0
            /\ TrailingComments(t).num = 0

\* ------------------------------------------------- claims about positions
\* a is before b in (line, column) order; neither call panicked.
PosLess(a, b) ==
    /\ a.ok /\ b.ok
    /\ \/ a.Line < b.Line
       \/ a.Line = b.Line /\ a.Col < b.Col

\* C13: for the tokens added successfully, the position of tokens[i].offset
\* is strictly before the position of tokens[j].offset in (line, column)
\* order whenever i < j.
C13_PositionMonotonic ==
    \A i \in TokenIdx, j \in TokenIdx :
        i < j => PosLess(Start(i), Start(j))

\* The one-based line of an offset: how many recorded line offsets are <= it.
LineOf(offset) == Cardinality({k \in 0 .. Len(lines) - 1 : At(lines, k) <= offset})

RECURSIVE ColumnsFrom(_, _, _)
\* The one-based column reached at offset when byte i is at column c: a tab
\* at column c moves to c + (8 - ((c-1) mod 8)), another byte to c + 1.
ColumnsFrom(i, offset, c) ==
    IF i < offset
    THEN ColumnsFrom(i + 1, offset,
                     IF At(data, i) = 9 THEN c + (8 - ((c - 1) % 8)) ELSE c + 1)
    ELSE c

\* The position the line table and the bytes give an offset.
PositionOf(offset) ==
    SourcePos(offset, LineOf(offset),
              ColumnsFrom(At(lines, LineOf(offset) - 1), offset, 1))

\* C14: for every offset with 0 <= offset <= len(data), pos returns the
\* one-based line that counts the recorded line offsets <= offset and the
\* one-based column found by walking the bytes from that line's offset, tabs
\* moving to the next multiple-of-8 tab stop; so does the call a consumer made.
C14_PositionFormula ==
    /\ \A offset \in 0 .. Len(data) : Pos(offset) = PositionOf(offset)
    /\ \A k \in 1 .. Len(queried) :
          (0 <= queried[k] /\ queried[k] <= Len(data)) =>
              /\ sourcePos = PositionOf(queried[k])
              /\ outcome = "ok"

\* C14 witness: a consumer asked for the offset behind a tab that is the
\* second byte of the second line, and got line 2, column 9.
C14_Witness ==
    /\ Len(queried) = 1
    /\ Len(lines) = 2
    /\ At(lines, 1) > 0
    /\ queried[1] = At(lines, 1) + 2
    /\ queried[1] <= Len(data)
    /\ At(data, At(lines, 1)) # 9
    /\ At(data, At(lines, 1) + 1) = 9
    /\ sourcePos = SourcePos(queried[1], 2, 9)

\* C17: AddLine(offset) fails exactly when the offset is negative, greater
\* than the file size, or not greater than the last recorded line offset; so
\* lines[0] = 0, the line offsets are strictly increasing, and every one is
\* at most len(data).
C17_LineTable ==
    /\ \A offset \in -1 .. Len(data) + 1 :
          AddLinePanics(offset) <=>
              \/ offset < 0
              \/ offset > Len(data)
              \/ offset <= At(lines, Len(lines) - 1)
    /\ Len(lines) >= 1
    /\ At(lines, 0) = 0
    /\ \A k \in 1 .. Len(lines) - 1 : At(lines, k - 1) < At(lines, k)
    /\ \A k \in 0 .. Len(lines) - 1 : At(lines, k) <= Len(data)

\* C17 witness: three lines are recorded, the last at the end of the file,
\* and the AddLine that followed failed.
C17_Witness ==
    /\ Len(lines) = 3
    /\ At(lines, 1) > 1
    /\ At(lines, 2) = Len(data)
    /\ queried = <<>>
    /\ outcome = "panic"

\* C24: for every token added, a zero-length one included, Start and End
\* return - they read neither outside the line table nor outside the bytes -
\* positions with Line >= 1 and Col >= 1, and Start is not after End.
C24_StartEndSafe ==
    \A t \in TokenIdx :
        /\ Start(t).ok /\ Start(t).Line >= 1 /\ Start(t).Col >= 1
        /\ End(t).ok /\ End(t).Line >= 1 /\ End(t).Col >= 1
        /\ ~PosLess(End(t), Start(t))

\* seq grew by one entry at its end, the earlier entries as they were.
Appended(before, after) ==
    /\ Len(after) = Len(before) + 1
    /\ SubSeq(after, 1, Len(before)) = before

\* A step of AddLine, AddToken or AddComment that keeps the frame.
C25_Step ==
    /\ data' = data
    /\ outcome' = "panic" => UNCHANGED <<lines, tokens, comments>>
    /\ outcome' = "ok" =>
          \/ Appended(lines, lines') /\ UNCHANGED <<tokens, comments>>
          \/ Appended(tokens, tokens') /\ UNCHANGED <<lines, comments>>
          \/ Appended(comments, comments') /\ UNCHANGED <<lines, tokens>>
    /\ \A index \in TokenIdx :
          index \in 0 .. Len(tokens') - 1 /\ At(tokens', index) = At(tokens, index)

\* C25: a failing AddLine, AddToken or AddComment leaves lines, tokens and
\* comments as they were; a succeeding one appends one entry to its own
\* sequence and changes no earlier entry and no other sequence; so the token
\* added as the n-th keeps index n - 1 and its offset and length for good.
C25_AppendOnly == [][C25_Step]_fvars

\* C25 witness: lines, tokens and comments have all grown, each call after
\* another, and the last call succeeded.
C25_Witness ==
    /\ Len(lines) >= 3
    /\ Len(tokens) = 2
    /\ Len(comments) = 2
    /\ At(tokens, 0).offset < At(tokens, 1).offset
    /\ outcome = "ok"

\* ================================================================ resolvers
\* Bounds: most constituents of a CompositeResolver, most import paths of a
\* SourceResolver.
MaxResolvers == 3
MaxImportPaths == 2

VARIABLES
    resolver,   \* the resolver FindFileByPath is called on
    path,       \* the path handed to FindFileByPath
    pc,         \* where the call stands: "call", "loop", "got" or "done"
    idx,        \* the position of the range loop in the slice
    held,       \* the (result, error) the call holds in its local variables
    calls,      \* the calls made so far to constituents or to the accessor
    ret         \* the (SearchResult, error) the call returned

rvars == <<resolver, path, pc, idx, held, calls, ret>>

\* The nil error, pointer or reader.
Nil == "nil"
NotFound == "protoregistry.NotFound"
ErrNotExist == "os.ErrNotExist"
\* The errnos os.Open fails with.
ENOENT == "no such file or directory"
EACCES == "permission denied"

\* filepath.Join(dir, name): empty elements are ignored, the others joined
\* with a separator.
Join(dir, name) == IF dir = "" THEN name ELSE dir \o "/" \o name

\* The paths asked for, the import paths, and the file names they join to.
Paths == {"x.proto", "google/protobuf/descriptor.proto"}
ImportDirs == {"", "/a", "/b"}
OpenNames == {Join(d, p) : d \in ImportDirs, p \in Paths}

\* The *PathError os.Open returns: it names the file it failed to open.
PathError(name, errno) == "open " \o name \o ": " \o errno

\* os.IsNotExist(err)
IsNotExist(err) ==
    \/ err \in {ErrNotExist, ENOENT}
    \/ err \in {PathError(name, ENOENT) : name \in OpenNames}

\* SearchResult{...}; SearchResult{} has every field nil.
SearchResult(source, ast, proto, desc) ==
    [Source |-> source, AST |-> ast, Proto |-> proto, Desc |-> desc]
ZeroResult == SearchResult(Nil, Nil, Nil, Nil)

\* The pair (SearchResult, error) a FindFileByPath returns.
Returned(res, err) == [res |-> res, err |-> err]

\* ------------------------------------------------------- CompositeResolver
\* The firstErr variable after a constituent failed with err.
FirstErrAfterLast(firstErr, err) == err
FirstErrAfter(firstErr, err) == IF firstErr = Nil THEN err ELSE firstErr

\* The call's entry: an empty slice returns NotFound at once.
CompositeEnter ==
    /\ resolver.kind = "composite"
    /\ pc = "call"
    /\ IF Len(resolver.rs) = 0
       THEN /\ ret' = Returned(ZeroResult, NotFound)
            /\ pc' = "done"
            /\ UNCHANGED <<idx, held>>
       ELSE /\ held' = Returned(ZeroResult, Nil)
            /\ idx' = 0
            /\ pc' = "loop"
            /\ UNCHANGED ret
    /\ UNCHANGED <<resolver, path, calls>>

\* A loop pass that goes on after a success, keeping the last one.
CompositeIterNoReturn ==
    /\ resolver.kind = "composite"
    /\ pc = "loop"
    /\ idx < Len(resolver.rs)
    /\ LET got == At(resolver.rs, idx)
       IN /\ calls' = Append(calls, idx)
          /\ held' = IF got.err = Nil THEN held
                     ELSE Returned(ZeroResult, FirstErrAfter(held.err, got.err))
          /\ idx' = idx + 1
          /\ UNCHANGED <<pc, ret>>
    /\ UNCHANGED <<resolver, path>>

\* One pass of the range loop: query constituent idx.
CompositeIter ==
    /\ resolver.kind = "composite"
    /\ pc = "loop"
    /\ idx < Len(resolver.rs)
    /\ LET got == At(resolver.rs, idx)
       IN /\ calls' = Append(calls, idx)
          /\ IF got.err = Nil
             THEN /\ ret' = Returned(got.res, Nil)
                  /\ pc' = "done"
                  /\ UNCHANGED <<idx, held>>
             ELSE /\ held' = Returned(ZeroResult, FirstErrAfter(held.err, got.err))
                  /\ idx' = idx + 1
                  /\ UNCHANGED <<pc, ret>>
    /\ UNCHANGED <<resolver, path>>

\* The loop ran out of constituents.
CompositeExit ==
    /\ resolver.kind = "composite"
    /\ pc = "loop"
    /\ idx = Len(resolver.rs)
    /\ ret' = Returned(ZeroResult, held.err)
    /\ pc' = "done"
    /\ UNCHANGED <<resolver, path, idx, held, calls>>

\* ---------------------------------------------------------- SourceResolver
\* The contents of the file with this name.
ContentOf(name) == "contents of " \o name

\* SourceAccessorFromMap(srcs)(name): srcs is the set of keys of the map.
SourceAccessorFromMap(srcs, name) ==
    IF name \notin srcs
    THEN [reader |-> Nil, err |-> ErrNotExist]
    ELSE [reader |-> ContentOf(name), err |-> Nil]

\* os.Open(name) on a file system where files[name] says how opening ends.
OsOpen(files, name) ==
    IF files[name] = Nil
    THEN [reader |-> ContentOf(name), err |-> Nil]
    ELSE [reader |-> Nil,
          err |-> PathError(name, IF files[name] = ErrNotExist THEN ENOENT ELSE files[name])]

\* r.accessFile(name)
accessFile(r, name) ==
    CASE r.Accessor = "nil" -> OsOpen(r.files, name)
      [] r.Accessor = "map" -> SourceAccessorFromMap({n \in DOMAIN r.files : r.files[n] = Nil}, name)
      [] OTHER -> IF r.files[name] = Nil
                  THEN [reader |-> ContentOf(name), err |-> Nil]
                  ELSE [reader |-> Nil, err |-> r.files[name]]

\* A loop that keeps the first does-not-exist error it met.
NotExistAfterFirst(e, err) == IF e = Nil THEN err ELSE e

\* The variable e once a candidate failed with the does-not-exist error err.
NotExistAfter(e, err) == err

\* Whether the loop goes on to the next import path after this error.
SkipsAnyError(err) == TRUE
Skips(err) == IsNotExist(err)

\* The call's entry: without import paths the literal path is opened.
SourceEnter ==
    /\ resolver.kind = "source"
    /\ pc = "call"
    /\ IF Len(resolver.ImportPaths) = 0
       THEN LET got == accessFile(resolver, path)
            IN /\ calls' = Append(calls, path)
               /\ ret' = IF got.err # Nil
                         THEN Returned(ZeroResult, got.err)
                         ELSE Returned(SearchResult(got.reader, Nil, Nil, Nil), Nil)
               /\ pc' = "done"
               /\ UNCHANGED <<idx, held>>
       ELSE /\ held' = Returned(ZeroResult, Nil)
            /\ idx' = 0
            /\ pc' = "loop"
            /\ UNCHANGED <<ret, calls>>
    /\ UNCHANGED <<resolver, path>>

\* One pass of the range loop: open the candidate under import path idx.
SourceIter ==
    /\ resolver.kind = "source"
    /\ pc = "loop"
    /\ idx < Len(resolver.ImportPaths)
    /\ LET name == Join(At(resolver.ImportPaths, idx), path)
           got == accessFile(resolver, name)
       IN /\ calls' = Append(calls, name)
          /\ IF got.err # Nil
             THEN IF Skips(got.err)
                  THEN /\ held' = Returned(ZeroResult, NotExistAfter(held.err, got.err))
                       /\ idx' = idx + 1
                       /\ UNCHANGED <<pc, ret>>
                  ELSE /\ ret' = Returned(ZeroResult, got.err)
                       /\ pc' = "done"
                       /\ UNCHANGED <<idx, held>>
             ELSE /\ ret' = Returned(SearchResult(got.reader, Nil, Nil, Nil), Nil)
                  /\ pc' = "done"
                  /\ UNCHANGED <<idx, held>>
    /\ UNCHANGED <<resolver, path>>

\* The loop ran out of import paths.
SourceExit ==
    /\ resolver.kind = "source"
    /\ pc = "loop"
    /\ idx = Len(resolver.ImportPaths)
    /\ ret' = Returned(ZeroResult, held.err)
    /\ pc' = "done"
    /\ UNCHANGED <<resolver, path, idx, held, calls>>

\* ------------------------------------------------------ WithStandardImports
\* The registry of the files that come with protoc.
standardImports ==
    [name \in {"google/protobuf/descriptor.proto", "google/protobuf/any.proto"} |->
        "descriptor of " \o name]

\* A wrapper that prefers the registry to the wrapped resolver.
StandardResultFirst(res, err, name) ==
    IF name \in DOMAIN standardImports
    THEN Returned(SearchResult(Nil, Nil, Nil, standardImports[name]), Nil)
    ELSE Returned(res, err)

\* A wrapper that never looks into the registry.
StandardResultNever(res, err, name) == Returned(res, err)

\* What the wrapper returns once r.FindFileByPath(name) returned (res, err).
StandardResult(res, err, name) ==
    IF err # Nil /\ name \in DOMAIN standardImports
    THEN Returned(SearchResult(Nil, Nil, Nil, standardImports[name]), Nil)
    ELSE Returned(res, err)

\* The wrapper queries the wrapped resolver.
StandardQuery ==
    /\ resolver.kind = "standard"
    /\ pc = "call"
    /\ calls' = Append(calls, path)
    /\ held' = resolver.r
    /\ pc' = "got"
    /\ UNCHANGED <<resolver, path, idx, ret>>

StandardReturn ==
    /\ resolver.kind = "standard"
    /\ pc = "got"
    /\ ret' = StandardResult(held.res, held.err, path)
    /\ pc' = "done"
    /\ UNCHANGED <<resolver, path, idx, held, calls>>

\* ------------------------------------------------ the resolvers under call
\* What a resolver given by the caller may return for the path.
SomeResults ==
    {SearchResult("source A", Nil, Nil, Nil), SearchResult(Nil, Nil, Nil, "descriptor B")}
CallerErrors == {"error A", "error B", NotFound}
ConstituentReturns ==
    {Returned(r, Nil) : r \in SomeResults} \cup {Returned(ZeroResult, e) : e \in CallerErrors}

\* The names a SourceResolver can ask the accessor for.
Candidates(p) == {Join(d, p) : d \in ImportDirs}

CompositeResolvers ==
    {[kind |-> "composite", rs |-> rs] : rs \in SeqsUpTo(ConstituentReturns, MaxResolvers)}
SourceResolvers(p) ==
    {[kind |-> "source", ImportPaths |-> ips, Accessor |-> a, files |-> f] :
        ips \in SeqsUpTo(ImportDirs, MaxImportPaths),
        a \in {"nil", "map", "func"},
        f \in [Candidates(p) -> {Nil, ErrNotExist, EACCES}]}
StandardResolvers ==
    {[kind |-> "standard", r |-> r] :
        r \in ConstituentReturns \cup {Returned(SearchResult("source A", Nil, Nil, Nil), "error A")}}

ResolverInit ==
    /\ path \in Paths
    /\ resolver \in CompositeResolvers \cup SourceResolvers(path) \cup StandardResolvers
    /\ pc = "call"
    /\ idx = 0
    /\ held = Returned(ZeroResult, Nil)
    /\ calls = <<>>
    /\ ret = Returned(ZeroResult, Nil)

\* No call in progress: the resolvers' variables while the FileInfo is built.
ResolverIdle ==
    /\ path = "x.proto"
    /\ resolver = [kind |-> "none"]
    /\ pc = "done"
    /\ idx = 0
    /\ held = Returned(ZeroResult, Nil)
    /\ calls = <<>>
    /\ ret = Returned(ZeroResult, Nil)

\* ------------------------------------------------ claims about the resolvers
\* The zero-based positions 0 .. n-1 as a sequence.
Positions(n) == [k \in 1 .. n |-> k - 1]

\* The constituents that return no error, by position.
Succeeding == {k \in 0 .. Len(resolver.rs) - 1 : At(resolver.rs, k).err = Nil}
\* The least element of a non-empty set of numbers.
Least(S) == CHOOSE k \in S : \A m \in S : k <= m

\* C5: a CompositeResolver queries its constituents in slice order; every
\* constituent queried before the last one failed; and the call returns the
\* result of the first constituent that succeeds, unchanged, having queried
\* none after it.
C5_CompositeFirstSuccess ==
    resolver.kind = "composite" =>
        /\ calls = Positions(Len(calls))
        /\ Len(calls) <= Len(resolver.rs)
        /\ \A n \in 0 .. Len(calls) - 2 : At(resolver.rs, n).err # Nil
        /\ (pc = "done" /\ Succeeding # {}) =>
              /\ ret = Returned(At(resolver.rs, Least(Succeeding)).res, Nil)
              /\ calls = Positions(Least(Succeeding) + 1)

\* C5 witness: the call returned the result of a constituent that is neither
\* the first nor the last, and a later constituent would have succeeded too.
C5_Witness ==
    /\ resolver.kind = "composite"
    /\ pc = "done"
    /\ Succeeding # {}
    /\ Least(Succeeding) > 0
    /\ Cardinality(Succeeding) > 1
    /\ ret.res = At(resolver.rs, Least(Succeeding)).res
    /\ ret.res # At(resolver.rs, Len(resolver.rs) - 1).res

\* C6: when every constituent of a non-empty CompositeResolver fails, the
\* call returns the error of the first constituent; an empty
\* CompositeResolver returns NotFound.
C6_CompositeFirstError ==
    (resolver.kind = "composite" /\ pc = "done" /\ Succeeding = {}) =>
        IF Len(resolver.rs) = 0
        THEN ret = Returned(ZeroResult, NotFound)
        ELSE ret = Returned(ZeroResult, At(resolver.rs, 0).err)

\* C6 witness: every constituent failed, the last with another error than
\* the first, and the first one's error was returned.
C6_Witness ==
    /\ resolver.kind = "composite"
    /\ pc = "done"
    /\ Len(resolver.rs) > 1
    /\ Succeeding = {}
    /\ At(resolver.rs, 0).err # At(resolver.rs, Len(resolver.rs) - 1).err
    /\ ret.err = At(resolver.rs, 0).err

\* How opening the candidate under import path k ends.
Opening(k) == accessFile(resolver, Join(At(resolver.ImportPaths, k), path))
\* The import paths whose candidate opens, by position.
Opens == {k \in 0 .. Len(resolver.ImportPaths) - 1 : Opening(k).err = Nil}

\* C7: a SourceResolver with import paths calls the accessor on
\* join(p_i, path) in list order and only goes on after a does-not-exist
\* error; a call that succeeds returns the Source-stage result wrapping the
\* stream of the first candidate that opens, the last one it asked for; and
\* when only does-not-exist errors precede the first candidate that opens,
\* the call succeeds with it.
C7_ImportPathFallthrough ==
    (resolver.kind = "source" /\ Len(resolver.ImportPaths) > 0) =>
        /\ Len(calls) <= Len(resolver.ImportPaths)
        /\ \A n \in 0 .. Len(calls) - 1 :
              At(calls, n) = Join(At(resolver.ImportPaths, n), path)
        /\ \A n \in 0 .. Len(calls) - 2 : IsNotExist(Opening(n).err)
        /\ (pc = "done" /\ ret.err = Nil) =>
              /\ Opens # {}
              /\ Len(calls) = Least(Opens) + 1
              /\ ret.res = SearchResult(Opening(Least(Opens)).reader, Nil, Nil, Nil)
              /\ ret.res.Source = ContentOf(At(calls, Len(calls) - 1))
        /\ ( /\ pc = "done"
             /\ Opens # {}
             /\ \A n \in 0 .. Least(Opens) - 1 : IsNotExist(Opening(n).err) ) =>
              ret = Returned(SearchResult(Opening(Least(Opens)).reader, Nil, Nil, Nil), Nil)

\* C7 witness: the first candidate does not exist, the second opens and is
\* returned; the first import path is not the second.
C7_Witness ==
    /\ resolver.kind = "source"
    /\ pc = "done"
    /\ Len(resolver.ImportPaths) > 1
    /\ At(resolver.ImportPaths, 0) # At(resolver.ImportPaths, 1)
    /\ IsNotExist(Opening(0).err)
    /\ Opening(1).err = Nil
    /\ Len(calls) = 2
    /\ ret = Returned(SearchResult(ContentOf(Join(At(resolver.ImportPaths, 1), path)),
                                   Nil, Nil, Nil), Nil)

\* The first import path whose candidate fails with an error that is not
\* does-not-exist, none before it opening.
Fatal ==
    {k \in 0 .. Len(resolver.ImportPaths) - 1 :
        /\ Opening(k).err # Nil
        /\ ~IsNotExist(Opening(k).err)
        /\ \A n \in 0 .. k - 1 : IsNotExist(Opening(n).err)}

\* C22: a SourceResolver with import paths returns the first accessor error
\* that is not does-not-exist at once, the candidates after it never asked
\* for; when every candidate fails with does-not-exist it returns the error
\* of the last import path; without import paths it calls the accessor once,
\* on the path as given, and returns its error as it is.
C22_SourceErrors ==
    resolver.kind = "source" =>
        IF Len(resolver.ImportPaths) = 0
        THEN /\ pc = "call" => calls = <<>>
             /\ pc = "done" =>
                   /\ calls = <<path>>
                   /\ accessFile(resolver, path).err # Nil =>
                         ret = Returned(ZeroResult, accessFile(resolver, path).err)
        ELSE /\ \A k \in Fatal :
                   /\ Len(calls) <= k + 1
                   /\ pc = "done" =>
                         /\ ret = Returned(ZeroResult, Opening(k).err)
                         /\ Len(calls) = k + 1
             /\ ( /\ pc = "done"
                  /\ \A k \in 0 .. Len(resolver.ImportPaths) - 1 : IsNotExist(Opening(k).err) ) =>
                   /\ ret = Returned(ZeroResult, Opening(Len(resolver.ImportPaths) - 1).err)
                   /\ Len(calls) = Len(resolver.ImportPaths)

\* C22 witness: both candidates do not exist, their errors differ, and the
\* call returned the error of the second import path.
C22_Witness ==
    /\ resolver.kind = "source"
    /\ pc = "done"
    /\ Len(resolver.ImportPaths) = 2
    /\ IsNotExist(Opening(0).err) /\ IsNotExist(Opening(1).err)
    /\ Opening(0).err # Opening(1).err
    /\ ret = Returned(ZeroResult, Opening(1).err)
    /\ Len(calls) = 2

\* C8: when the wrapped resolver succeeds, WithStandardImports returns its
\* result and a nil error, also for a path of the registry, and it queries
\* the wrapped resolver once.
C8_StandardNonOverride ==
    resolver.kind = "standard" =>
        /\ Len(calls) <= 1
        /\ pc \in {"got", "done"} => calls = <<path>>
        /\ (pc = "done" /\ resolver.r.err = Nil) => ret = Returned(resolver.r.res, Nil)

\* C8 witness: the wrapped resolver succeeded for a path of the registry and
\* its result was returned.
C8_Witness ==
    /\ resolver.kind = "standard"
    /\ pc = "done"
    /\ resolver.r.err = Nil
    /\ path \in DOMAIN standardImports
    /\ ret = Returned(resolver.r.res, Nil)

\* ================================================================= compiler
\* The orchestrator of Compiler.Compile: one task per logical path, created
\* by ensure_task, driven by a worker of its own through the pipeline
\* Source -> Ast -> Proto -> Desc.
VARIABLES
    fileset,    \* the files behind the resolver: import lists, what each yields
    seeds,      \* the paths handed to compile
    tasks,      \* the task map: logical path -> task
    runs,       \* how often each collaborator ran for each path
    main        \* the compile call itself: its position and its result

cvars == <<fileset, seeds, tasks, runs, main>>

Files == {"a.proto", "b.proto", "c.proto"}
Stages == <<"Source", "Ast", "Proto", "Desc">>

\* An error of the compiler: its kind, its message, its cycle of paths.
CompileError(kind, msg, cycle) == [kind |-> kind, msg |-> msg, cycle |-> cycle]
NoError == CompileError(Nil, "", <<>>)
\* A task's result slot: unset, a linked descriptor, or an error.
Unset == [set |-> FALSE, desc |-> Nil, err |-> NoError]
Linked(p) == [set |-> TRUE, desc |-> "descriptor of " \o p, err |-> NoError]
Failed(err) == [set |-> TRUE, desc |-> Nil, err |-> err]

\* A task: its worker's position, its stage, its result slot, its completion
\* signal, the path stack that led to its creation, and the dependencies it
\* has asked for so far.
Task(pc0, stack) ==
    [pc |-> pc0, stage |-> Nil, result |-> Unset, done |-> FALSE,
     stack |-> stack, deps |-> <<>>]
Absent == Task("absent", <<>>)

\* An ensure_task that does not look for an existing task.
EnsureTaskAlways(ts, d, stack) ==
    [tasks |-> [ts EXCEPT ![d] = Task("resolve", Append(stack, d))], created |-> TRUE]

\* ensure_task(d): create the task on a miss, return the existing one
\* otherwise. stack is the path stack of the caller.
EnsureTask(ts, d, stack) ==
    IF ts[d].pc # "absent"
    THEN [tasks |-> ts, created |-> FALSE]
    ELSE [tasks |-> [ts EXCEPT ![d] = Task("resolve", Append(stack, d))], created |-> TRUE]

\* runs with one more run of a collaborator for p.
Ran(what, p) == [runs EXCEPT ![what][p] = @ + 1]

\* Whether path d is on a path stack, and the cycle from d back to d.
OnStack(stack, d) == \E k \in 1 .. Len(stack) : stack[k] = d
CycleFrom(stack, d) ==
    LET first == CHOOSE k \in 1 .. Len(stack) :
                    stack[k] = d /\ \A m \in 1 .. k - 1 : stack[m] # d
    IN Append(SubSeq(stack, first, Len(stack)), d)

\* A compiler that prefers the fields in the order listed: source first.
StartStageLowest(res) ==
    CASE res.Source # Nil -> "Source"
      [] res.AST # Nil -> "Ast"
      [] res.Proto # Nil -> "Proto"
      [] OTHER -> "Desc"

\* The highest populated stage of a SearchResult.
StartStage(res) ==
    CASE res.Desc # Nil -> "Desc"
      [] res.Proto # Nil -> "Proto"
      [] res.AST # Nil -> "Ast"
      [] OTHER -> "Source"

\* A compile that creates a task for every file it could be asked for, not
\* only for the seed at hand.
CompileSeedAll ==
    /\ main.pc = "seeds"
    /\ main.next <= Len(seeds)
    /\ tasks' = [p \in DOMAIN tasks |->
                    IF tasks[p].pc = "absent" THEN Task("resolve", <<p>>) ELSE tasks[p]]
    /\ runs' = [runs EXCEPT !["create"] =
                    [p \in DOMAIN tasks |-> IF tasks[p].pc = "absent" THEN 1 ELSE @[p]]]
    /\ main' = [main EXCEPT !.next = @ + 1]
    /\ UNCHANGED <<fileset, seeds>>

\* compile: ensure_task for the next seed path.
CompileSeed ==
    /\ main.pc = "seeds"
    /\ main.next <= Len(seeds)
    /\ LET p == seeds[main.next]
           got == EnsureTask(tasks, p, <<>>)
       IN /\ tasks' = got.tasks
          /\ runs' = IF got.created THEN Ran("create", p) ELSE runs
    /\ main' = [main EXCEPT !.next = @ + 1]
    /\ UNCHANGED <<fileset, seeds>>

\* The first seed path whose task failed, if any.
FirstFailedSeed ==
    CHOOSE k \in 1 .. Len(seeds) :
        /\ tasks[seeds[k]].result.err # NoError
        /\ \A m \in 1 .. k - 1 : tasks[seeds[m]].result.err = NoError

\* compile: every seed's completion signal is raised; return.
CompileReturn ==
    /\ main.pc = "seeds"
    /\ main.next > Len(seeds)
    /\ \A k \in 1 .. Len(seeds) : tasks[seeds[k]].done
    /\ main' = [main EXCEPT
                  !.pc = "returned",
                  !.descs = IF \E k \in 1 .. Len(seeds) : tasks[seeds[k]].result.err # NoError
                            THEN <<>>
                            ELSE [k \in 1 .. Len(seeds) |-> tasks[seeds[k]].result.desc],
                  !.err = IF \E k \in 1 .. Len(seeds) : tasks[seeds[k]].result.err # NoError
                          THEN tasks[seeds[FirstFailedSeed]].result.err
                          ELSE NoError]
    /\ UNCHANGED <<fileset, seeds, tasks, runs>>

\* A worker that captures a fault but drops its message.
CapturedNoMessage(msg) == Failed(CompileError("Panic", "", <<>>))

\* What the worker stores when it captures a fault with this message.
Captured(msg) == Failed(CompileError("Panic", msg, <<>>))

\* The message of each fault a collaborator can raise.
FaultMessage ==
    [f \in {"resolver panics", "parser panics", "lowering panics", "linker panics"} |->
        CASE f = "resolver panics" -> "mui mui bad"
          [] f = "parser panics" -> "parser fault"
          [] f = "lowering panics" -> "lowering fault"
          [] OTHER -> "linker fault"]

\* What the resolver the files come from returns for a file.
BaseAnswer(f) ==
    IF f.fault = "not found" THEN Returned(ZeroResult, NotFound) ELSE Returned(f.res, Nil)

\* What Compiler.Resolver returns for p: the files' resolver, wrapped by
\* WithStandardImports when the compiler is configured so.
ResolverAnswer(p) ==
    LET base == BaseAnswer(fileset[p])
    IN IF resolver.kind = "standard"
       THEN StandardResult(base.res, base.err, p)
       ELSE base

\* The worker of p asks the resolver for p.
Resolve(p) ==
    /\ tasks[p].pc = "resolve"
    /\ runs' = Ran("resolve", p)
    /\ LET f == fileset[p]
       IN tasks' = [tasks EXCEPT ![p] =
            CASE f.fault = "resolver panics" ->
                    [@ EXCEPT !.pc = "signal",
                              !.result = Captured(FaultMessage[f.fault])]
              [] ResolverAnswer(p).err # Nil ->
                    [@ EXCEPT !.pc = "signal",
                              !.result = Failed(CompileError("NotFound", "", <<>>))]
              [] OTHER ->
                    LET start == StartStage(ResolverAnswer(p).res)
                    IN CASE start = "Desc" ->
                               [@ EXCEPT !.pc = "signal", !.stage = "Desc",
                                         !.result = Linked(p)]
                         [] start = "Proto" -> [@ EXCEPT !.pc = "deps", !.stage = "Proto"]
                         [] start = "Ast" -> [@ EXCEPT !.pc = "lower", !.stage = "Ast"]
                         [] OTHER -> [@ EXCEPT !.pc = "parse", !.stage = "Source"]]
    /\ UNCHANGED <<fileset, seeds, main>>

\* Source -> Ast: the parser.
Parse(p) ==
    /\ tasks[p].pc = "parse"
    /\ runs' = Ran("parse", p)
    /\ tasks' = [tasks EXCEPT ![p] =
            CASE fileset[p].fault = "parser panics" ->
                    [@ EXCEPT !.pc = "signal",
                              !.result = Captured(FaultMessage[fileset[p].fault])]
              [] fileset[p].fault = "syntax error" ->
                    [@ EXCEPT !.pc = "signal",
                              !.result = Failed(CompileError("Syntax", "", <<>>))]
              [] OTHER -> [@ EXCEPT !.pc = "lower", !.stage = "Ast"]]
    /\ UNCHANGED <<fileset, seeds, main>>

\* Ast -> Proto: the lowering.
Lower(p) ==
    /\ tasks[p].pc = "lower"
    /\ runs' = Ran("lower", p)
    /\ tasks' = [tasks EXCEPT ![p] =
            IF fileset[p].fault = "lowering panics"
            THEN [@ EXCEPT !.pc = "signal",
                           !.result = Captured(FaultMessage[fileset[p].fault])]
            ELSE [@ EXCEPT !.pc = "deps", !.stage = "Proto"]]
    /\ UNCHANGED <<fileset, seeds, main>>

\* The worker of p calls ensure_task for its next dependency d and records
\* the edge p -> d; a d on the path stack of p is an import cycle.
EnsureDependency(p) ==
    /\ tasks[p].pc = "deps"
    /\ Len(tasks[p].deps) < Len(fileset[p].imports)
    /\ LET d == fileset[p].imports[Len(tasks[p].deps) + 1]
       IN IF OnStack(tasks[p].stack, d)
          THEN /\ tasks' = [tasks EXCEPT ![p] =
                    [@ EXCEPT !.pc = "signal",
                              !.result = Failed(CompileError("CyclicImport", "",
                                                             CycleFrom(tasks[p].stack, d)))]]
               /\ UNCHANGED runs
          ELSE LET got == EnsureTask(tasks, d, tasks[p].stack)
               IN /\ tasks' = [got.tasks EXCEPT ![p].deps = Append(@, d)]
                  /\ runs' = IF got.created THEN Ran("create", d) ELSE runs
    /\ UNCHANGED <<fileset, seeds, main>>

\* Every dependency has a task: go and wait for them.
DependenciesKnown(p) ==
    /\ tasks[p].pc = "deps"
    /\ Len(tasks[p].deps) = Len(fileset[p].imports)
    /\ tasks' = [tasks EXCEPT ![p].pc = "wait"]
    /\ UNCHANGED <<fileset, seeds, runs, main>>

\* The first dependency of p that failed.
FirstFailedDep(p) ==
    LET deps == tasks[p].deps
        k == CHOOSE k \in 1 .. Len(deps) :
                /\ tasks[deps[k]].result.err # NoError
                /\ \A m \in 1 .. k - 1 : tasks[deps[m]].result.err = NoError
    IN deps[k]

\* A worker that looks at its dependencies' results without waiting for their
\* completion signals.
AwaitDependenciesNoWait(p) ==
    /\ tasks[p].pc = "wait"
    /\ tasks' = [tasks EXCEPT ![p] =
            IF \E k \in 1 .. Len(tasks[p].deps) : tasks[tasks[p].deps[k]].result.err # NoError
            THEN [@ EXCEPT !.pc = "signal",
                           !.result = Failed(tasks[FirstFailedDep(p)].result.err)]
            ELSE [@ EXCEPT !.pc = "link"]]
    /\ UNCHANGED <<fileset, seeds, runs, main>>

\* The completion signal of every dependency of p is raised: link, or store
\* the failure of a dependency.
AwaitDependencies(p) ==
    /\ tasks[p].pc = "wait"
    /\ \A k \in 1 .. Len(tasks[p].deps) : tasks[tasks[p].deps[k]].done
    /\ tasks' = [tasks EXCEPT ![p] =
            IF \E k \in 1 .. Len(tasks[p].deps) : tasks[tasks[p].deps[k]].result.err # NoError
            THEN [@ EXCEPT !.pc = "signal",
                           !.result = Failed(tasks[FirstFailedDep(p)].result.err)]
            ELSE [@ EXCEPT !.pc = "link"]]
    /\ UNCHANGED <<fileset, seeds, runs, main>>

\* Proto -> Desc: the linker.
Link(p) ==
    /\ tasks[p].pc = "link"
    /\ runs' = Ran("link", p)
    /\ tasks' = [tasks EXCEPT ![p] =
            CASE fileset[p].fault = "linker panics" ->
                    [@ EXCEPT !.pc = "signal",
                              !.result = Captured(FaultMessage[fileset[p].fault])]
              [] fileset[p].fault = "link error" ->
                    [@ EXCEPT !.pc = "signal",
                              !.result = Failed(CompileError("Semantic", "", <<>>))]
              [] OTHER -> [@ EXCEPT !.pc = "signal", !.stage = "Desc", !.result = Linked(p)]]
    /\ UNCHANGED <<fileset, seeds, main>>

\* A worker that raises the completion signal wherever it stands.
SignalAnytime(p) ==
    /\ tasks[p].pc \notin {"absent", "done"}
    /\ tasks' = [tasks EXCEPT ![p] = [@ EXCEPT !.pc = "done", !.done = TRUE]]
    /\ UNCHANGED <<fileset, seeds, runs, main>>

\* The worker of p raises the completion signal.
Signal(p) ==
    /\ tasks[p].pc = "signal"
    /\ tasks' = [tasks EXCEPT ![p] = [@ EXCEPT !.pc = "done", !.done = TRUE]]
    /\ UNCHANGED <<fileset, seeds, runs, main>>

\* ------------------------------------------------------- the files compiled
\* The import lists: the subsets of Files, in name order.
ImportLists ==
    {<<>>, <<"a.proto">>, <<"b.proto">>, <<"c.proto">>, <<"a.proto", "b.proto">>,
     <<"a.proto", "c.proto">>, <<"b.proto", "c.proto">>}

\* A file the resolver knows as source, parsed and linked without error.
PlainFile(imports) ==
    [imports |-> imports, fault |-> Nil,
     res |-> SearchResult("source", Nil, Nil, Nil)]

SeedLists ==
    {<<"a.proto">>, <<"a.proto", "a.proto">>, <<"a.proto", "b.proto">>}

\* The files reachable from a set of paths along import edges.
Elems(seq) == {seq[k] : k \in 1 .. Len(seq)}
RECURSIVE Reach(_, _)
Reach(fs, S) ==
    LET more == S \cup UNION {Elems(fs[p].imports) : p \in S}
    IN IF more = S THEN S ELSE Reach(fs, more)

CompilerInit ==
    /\ seeds \in SeedLists
    /\ fileset \in [Files -> {PlainFile(i) : i \in ImportLists}]
    /\ \A p \in Files \ Reach(fileset, Elems(seeds)) : fileset[p] = PlainFile(<<>>)
    /\ tasks = [p \in Files |-> Absent]
    /\ runs = [what \in {"create", "resolve", "parse", "lower", "link"} |-> [p \in Files |-> 0]]
    /\ main = [pc |-> "seeds", next |-> 1, descs |-> <<>>, err |-> NoError]

\* No compile in progress.
CompilerIdle ==
    /\ seeds = <<>>
    /\ fileset = [p \in Files |-> PlainFile(<<>>)]
    /\ tasks = [p \in Files |-> Absent]
    /\ runs = [what \in {"create", "resolve", "parse", "lower", "link"} |-> [p \in Files |-> 0]]
    /\ main = [pc |-> "returned", next |-> 1, descs |-> <<>>, err |-> NoError]

\* ------------------------------------- files that fail or start further on
\* What can go wrong with a file: the resolver, the parser, the lowering or
\* the linker faults, the resolver does not find it, the parser or the linker
\* reports an error.
Faults ==
    {Nil, "resolver panics", "not found", "parser panics", "syntax error",
     "lowering panics", "linker panics", "link error"}

\* The results the resolver can return for a file, with one slot populated
\* or with several.
ResolverResults ==
    {SearchResult("source", Nil, Nil, Nil), SearchResult(Nil, "ast", Nil, Nil),
     SearchResult(Nil, Nil, "proto", Nil), SearchResult(Nil, Nil, Nil, "desc"),
     SearchResult("source", "ast", Nil, Nil), SearchResult("source", Nil, "proto", "desc"),
     SearchResult("source", "ast", "proto", "desc")}

\* The import graphs without a cycle: a file imports files after it.
AcyclicGraphs ==
    {[p \in Files |-> CASE p = "a.proto" -> ia [] p = "b.proto" -> ib [] OTHER -> <<>>] :
        ia \in {<<>>, <<"b.proto">>, <<"c.proto">>, <<"b.proto", "c.proto">>},
        ib \in {<<>>, <<"c.proto">>}}

\* The file sets with at most one file that is not a plain one.
PipelineFilesets ==
    {[p \in Files |-> [imports |-> g[p],
                       fault |-> IF p = odd THEN ft ELSE Nil,
                       res |-> IF p = odd THEN r ELSE SearchResult("source", Nil, Nil, Nil)]] :
        g \in AcyclicGraphs, odd \in Files, ft \in Faults, r \in ResolverResults}

PipelineInit ==
    /\ seeds \in SeedLists
    /\ fileset \in PipelineFilesets
    /\ \A p \in Files \ Reach(fileset, Elems(seeds)) : fileset[p] = PlainFile(<<>>)
    /\ tasks = [p \in Files |-> Absent]
    /\ runs = [what \in {"create", "resolve", "parse", "lower", "link"} |-> [p \in Files |-> 0]]
    /\ main = [pc |-> "seeds", next |-> 1, descs |-> <<>>, err |-> NoError]

\* ------------------------------------------- files of the standard imports
\* A file that imports a well-known file and another one.
StandardFiles == {"test.proto", "google/protobuf/descriptor.proto", "other.proto"}

\* The resolver of the files knows test.proto and may know the others; the
\* compiler's resolver is that one, or that one wrapped by
\* WithStandardImports.
StandardInit ==
    /\ seeds \in {<<"test.proto">>, <<"test.proto", "google/protobuf/descriptor.proto">>,
                  <<"other.proto", "test.proto">>}
    /\ \E imports \in {<<>>, <<"google/protobuf/descriptor.proto">>, <<"other.proto">>,
                        <<"google/protobuf/descriptor.proto", "other.proto">>},
          unknown \in SUBSET {"google/protobuf/descriptor.proto", "other.proto"} :
          fileset = [p \in StandardFiles |->
                        [imports |-> IF p = "test.proto" THEN imports ELSE <<>>,
                         fault |-> IF p \in unknown THEN "not found" ELSE Nil,
                         res |-> SearchResult("source", Nil, Nil, Nil)]]
    /\ tasks = [p \in StandardFiles |-> Absent]
    /\ runs = [what \in {"create", "resolve", "parse", "lower", "link"} |->
                  [p \in StandardFiles |-> 0]]
    /\ main = [pc |-> "seeds", next |-> 1, descs |-> <<>>, err |-> NoError]

\* The compiler's resolver: wrapped by WithStandardImports or not.
CompilerResolvers == {[kind |-> "standard"], [kind |-> "source"]}

\* ------------------------------------------------ claims about the compiler
\* How many requests for p have been made: by seed positions compile has
\* handled, and by workers that recorded p as a dependency.
Requests(p) ==
    Cardinality({k \in 1 .. Len(seeds) : k < main.next /\ seeds[k] = p})
    + Cardinality({q \in Files : p \in Elems(tasks[q].deps)})

\* C9: for every path, however often it is requested, ensure_task creates at
\* most one task, and the resolver, the parser, the lowering and the linker
\* run at most once; compile hands every request for a path the one result
\* of its task.
C9_Deduplication ==
    /\ \A p \in Files :
          /\ runs["create"][p] <= 1
          /\ runs["resolve"][p] <= 1
          /\ runs["parse"][p] <= 1
          /\ runs["lower"][p] <= 1
          /\ runs["link"][p] <= 1
          /\ (Requests(p) > 0) => runs["create"][p] = 1
    /\ (main.pc = "returned" /\ main.err = NoError) =>
          \A k \in 1 .. Len(seeds) :
              /\ tasks[seeds[k]].result.set
              /\ main.descs[k] = tasks[seeds[k]].result.desc

\* C9 witness: compile returned the descriptors; one path was requested
\* three times, as a seed and as an import of two files, and went through the
\* pipeline once.
C9_Witness ==
    /\ main.pc = "returned"
    /\ main.err = NoError
    /\ \E p \in Files :
          /\ Requests(p) >= 3
          /\ p \in Elems(seeds)
          /\ \A what \in DOMAIN runs : runs[what][p] = 1

\* The import graph reachable from the seeds has a cycle.
HasCycle ==
    \E p \in Reach(fileset, Elems(seeds)) :
        p \in Reach(fileset, Elems(fileset[p].imports))

\* A sequence of paths that follows import edges and ends where it starts.
IsCycle(seq) ==
    /\ Len(seq) >= 2
    /\ seq[1] = seq[Len(seq)]
    /\ \A k \in 1 .. Len(seq) - 1 : seq[k + 1] \in Elems(fileset[seq[k]].imports)

\* No worker can take a step and compile waits for a completion signal.
Deadlocked ==
    /\ main.pc = "seeds"
    /\ main.next > Len(seeds)
    /\ \E k \in 1 .. Len(seeds) : ~tasks[seeds[k]].done
    /\ \A p \in Files :
          \/ tasks[p].pc \in {"absent", "done"}
          \/ /\ tasks[p].pc = "wait"
             /\ \E k \in 1 .. Len(tasks[p].deps) : ~tasks[tasks[p].deps[k]].done

RECURSIVE Needs(_)
Needs(S) ==
    LET more == S \cup UNION {Elems(tasks[p].deps) : p \in S}
    IN IF more = S THEN S ELSE Needs(more)

\* A collaborator has raised its fault while a worker drove p.
Faulted(p) ==
    \/ fileset[p].fault = "resolver panics" /\ runs["resolve"][p] > 0
    \/ fileset[p].fault = "parser panics" /\ runs["parse"][p] > 0
    \/ fileset[p].fault = "lowering panics" /\ runs["lower"][p] > 0
    \/ fileset[p].fault = "linker panics" /\ runs["link"][p] > 0

\* The Panic error that carries the message of p's fault.
PanicOf(p) == CompileError("Panic", FaultMessage[fileset[p].fault], <<>>)

\* C11: a fault of the resolver, the parser, the lowering or the linker for
\* path p is stored as p's result, a Panic error with the fault's message; no
\* worker is left waiting; a finished task that needs no faulted task has
\* its own result, no Panic; a finished task that needs p holds p's Panic; and
\* a compile with a seed that needs p returns that Panic error.
C11_PanicIsolation ==
    /\ ~Deadlocked
    /\ \A p \in Files :
          Faulted(p) => tasks[p].result = Failed(PanicOf(p))
    /\ \A q \in Files :
          tasks[q].done =>
              /\ (\A p \in Needs({q}) : ~Faulted(p)) =>
                    /\ tasks[q].result.set
                    /\ tasks[q].result.err.kind # "Panic"
                    /\ (\A p \in Needs({q}) : fileset[p].fault = Nil) =>
                          tasks[q].result = Linked(q)
              /\ \A p \in Needs({q}) :
                    Faulted(p) => tasks[q].result = Failed(PanicOf(p))
    /\ main.pc = "returned" =>
          \A p \in Needs(Elems(seeds)) : Faulted(p) => main.err = PanicOf(p)

\* C11 witness: compile returned the Panic error of a fault with its
\* message; a seed that imports the faulted file holds the propagated Panic,
\* and another seed, which does not need it, is linked.
C11_Witness ==
    /\ main.pc = "returned"
    /\ main.err.kind = "Panic"
    /\ main.err.msg # ""
    /\ \E p \in Files, q \in Elems(seeds), r \in Elems(seeds) :
          /\ Faulted(p)
          /\ q # p /\ p \in Needs({q})
          /\ tasks[q].result = Failed(PanicOf(p))
          /\ p \notin Needs({r})
          /\ tasks[r].result = Linked(r)

\* The direct dependencies of p, and the linker having been invoked for p.
DirectDeps(p) == Elems(fileset[p].imports)
LinkerInvoked(p) == runs["link"][p] > 0

\* C12: the linker is invoked for p only once every direct dependency of p
\* has raised its completion signal and holds a linked descriptor; when a
\* direct dependency p asked for ended in failure, the linker is never
\* invoked for p and the result p stores after its wait (p asked for all its
\* dependencies) is the failure of one of its direct dependencies.
C12_LinkOrdering ==
    \A p \in Files :
        /\ (tasks[p].pc = "link" \/ LinkerInvoked(p)) =>
              /\ Elems(tasks[p].deps) = DirectDeps(p)
              /\ \A d \in DirectDeps(p) :
                    /\ tasks[d].done
                    /\ tasks[d].result = Linked(d)
        /\ \A d \in Elems(tasks[p].deps) :
              (tasks[d].done /\ tasks[d].result.err # NoError) =>
                  /\ tasks[p].pc # "link"
                  /\ ~LinkerInvoked(p)
                  /\ (tasks[p].result.set /\ Len(tasks[p].deps) = Len(fileset[p].imports)) =>
                        \E e \in Elems(tasks[p].deps) :
                            /\ tasks[e].result.err # NoError
                            /\ tasks[p].result = Failed(tasks[e].result.err)

\* C12 witness: a file with two direct dependencies, one linked and one
\* failed, finished with the failure of the failed one, its linker never
\* invoked, while the linker was invoked for the linked dependency.
C12_Witness ==
    \E p \in Files, d \in Files, e \in Files :
        /\ tasks[p].done
        /\ DirectDeps(p) = {d, e}
        /\ tasks[d].result = Linked(d) /\ LinkerInvoked(d)
        /\ tasks[e].done /\ tasks[e].result.err # NoError
        /\ tasks[p].result = Failed(tasks[e].result.err)
        /\ ~LinkerInvoked(p)

\* The files the files' resolver fails for and the wrapper does not supply.
Missing ==
    {p \in DOMAIN fileset :
        /\ fileset[p].fault = "not found"
        /\ ~(resolver.kind = "standard" /\ p \in DOMAIN standardImports)}

\* C16: when the wrapped resolver fails for a path, WithStandardImports
\* returns the built-in descriptor as a Desc-stage result with a nil error if
\* the path is in the registry, and the wrapped resolver's result and error
\* otherwise; so a task whose file the resolver does not know is linked
\* at once from the registry with the wrapper and fails with NotFound without
\* it, and compile of a file that imports it succeeds with the wrapper and
\* returns NotFound without.
C16_StandardFallback ==
    /\ \A name \in DOMAIN fileset \cup Paths, err \in CallerErrors \cup {ErrNotExist} :
          StandardResult(ZeroResult, err, name) =
              IF name \in DOMAIN standardImports
              THEN Returned(SearchResult(Nil, Nil, Nil, standardImports[name]), Nil)
              ELSE Returned(ZeroResult, err)
    /\ \A p \in DOMAIN tasks :
          (runs["resolve"][p] > 0 /\ fileset[p].fault = "not found") =>
              IF p \in Missing
              THEN tasks[p].result = Failed(CompileError("NotFound", "", <<>>))
              ELSE /\ tasks[p].stage = "Desc"
                   /\ tasks[p].result = Linked(p)
                   /\ runs["parse"][p] = 0 /\ runs["lower"][p] = 0 /\ runs["link"][p] = 0
    /\ main.pc = "returned" =>
          IF Needs(Elems(seeds)) \cap Missing = {}
          THEN /\ main.err = NoError
               /\ main.descs = [k \in 1 .. Len(seeds) |-> Linked(seeds[k]).desc]
          ELSE main.err.kind = "NotFound"

\* C16 witness: the resolver knows test.proto alone, test.proto imports
\* google/protobuf/descriptor.proto, and compile with the wrapper returned
\* the descriptor of test.proto.
C16_Witness ==
    /\ resolver.kind = "standard"
    /\ seeds = <<"test.proto">>
    /\ "google/protobuf/descriptor.proto" \in Elems(fileset["test.proto"].imports)
    /\ fileset["google/protobuf/descriptor.proto"].fault = "not found"
    /\ main.pc = "returned"
    /\ main.err = NoError
    /\ main.descs = <<Linked("test.proto").desc>>
    /\ tasks["google/protobuf/descriptor.proto"].stage = "Desc"

\* The place of a stage on the ladder Source, Ast, Proto, Desc.
Rank(stage) == CHOOSE k \in 1 .. Len(Stages) : Stages[k] = stage
\* The slot of a SearchResult that belongs to a stage.
Slot(res, stage) ==
    CASE stage = "Source" -> res.Source
      [] stage = "Ast" -> res.AST
      [] stage = "Proto" -> res.Proto
      [] OTHER -> res.Desc
\* The worker of p has the resolver's result.
Resolved(p) ==
    /\ runs["resolve"][p] > 0
    /\ fileset[p].fault \notin {"resolver panics", "not found"}

\* C19: the pipeline of a file starts at the highest populated stage of the
\* resolver's result; the parser runs only from Source, the lowering only
\* from Source or Ast and after the parser if that has to run, the linker
\* only below Desc and after the lowering if that has to run; the task's
\* stage is never below the starting stage; and a file that ends linked has
\* run exactly the stages above its starting stage, none for Desc.
C19_StageSelection ==
    /\ \A res \in ResolverResults :
          /\ Slot(res, StartStage(res)) # Nil
          /\ \A k \in Rank(StartStage(res)) + 1 .. Len(Stages) : Slot(res, Stages[k]) = Nil
    /\ \A p \in Files :
          LET start == Rank(StartStage(fileset[p].res))
              parsed == runs["parse"][p]
              lowered == runs["lower"][p]
              linked == runs["link"][p]
          IN /\ ~Resolved(p) => parsed + lowered + linked = 0
             /\ parsed > 0 => start = 1
             /\ lowered > 0 => start <= 2 /\ (start = 1 => parsed > 0)
             /\ linked > 0 => start <= 3 /\ (start <= 2 => lowered > 0)
             /\ Resolved(p) => Rank(tasks[p].stage) >= start
             /\ tasks[p].result = Linked(p) =>
                   /\ parsed = (IF start = 1 THEN 1 ELSE 0)
                   /\ lowered = (IF start <= 2 THEN 1 ELSE 0)
                   /\ linked = (IF start <= 3 THEN 1 ELSE 0)

\* C19 witness: the resolver's result for a file has source and AST; the
\* file ends linked, lowered once and linked once and never parsed.
C19_Witness ==
    \E p \in Files :
        /\ fileset[p].res.Source # Nil /\ fileset[p].res.AST # Nil
        /\ fileset[p].res.Proto = Nil /\ fileset[p].res.Desc = Nil
        /\ tasks[p].done
        /\ tasks[p].result = Linked(p)
        /\ runs["parse"][p] = 0 /\ runs["lower"][p] = 1 /\ runs["link"][p] = 1

\* A step in which every task goes forward only.
C20_Step ==
    \A p \in DOMAIN tasks :
        /\ tasks[p].pc # "absent" => tasks'[p].pc # "absent"
        /\ tasks[p].stage # Nil =>
              /\ tasks'[p].stage # Nil
              /\ Rank(tasks'[p].stage) >= Rank(tasks[p].stage)
        /\ tasks[p].result.set => tasks'[p].result = tasks[p].result
        /\ tasks'[p].result # tasks[p].result => tasks'[p].result.set
        /\ tasks[p].done => tasks'[p] = tasks[p]
        /\ tasks'[p].done => tasks'[p].result.set
        /\ (tasks'[p].done /\ ~tasks[p].done) => tasks[p].result.set

\* C20: in every step of the orchestrator, under every interleaving, a task
\* stays in the map, its stage does not decrease, a result once set is not
\* changed, and the completion signal is raised only by a step that finds the
\* result set; after that the task does not change any more, so the signal is
\* raised at most once.
C20_TaskMonotonic == [][C20_Step]_cvars

\* C20 witness: compile returned; one task went up the whole ladder and
\* holds its descriptor, another holds an error; both signals are raised.
C20_Witness ==
    /\ main.pc = "returned"
    /\ \E p \in Files, q \in Files :
          /\ tasks[p].done /\ tasks[p].stage = "Desc" /\ tasks[p].result = Linked(p)
          /\ runs["parse"][p] = 1 /\ runs["link"][p] = 1
          /\ tasks[q].done /\ tasks[q].result.err # NoError

\* The resolver has been asked for p.
Queried(p) == runs["resolve"][p] > 0
\* The dependency list of q is known to its worker: q was parsed, unless the
\* resolver gave its AST or its descriptor proto, and q has reached Proto.
DependenciesRead(q) ==
    /\ Resolved(q)
    /\ Rank(tasks[q].stage) >= Rank("Proto")
    /\ StartStage(fileset[q].res) = "Source" => runs["parse"][q] = 1

\* C21: the resolver is asked only for a seed path or for a path in the
\* dependency list of a file whose dependency list has been read, and at most
\* once for each; a compile of one file without imports has asked for that
\* file alone when it returns.
C21_ResolverQueries ==
    /\ \A p \in Files :
          /\ runs["resolve"][p] <= 1
          /\ Queried(p) =>
                \/ \E k \in 1 .. Len(seeds) : k < main.next /\ seeds[k] = p
                \/ \E q \in Files :
                      /\ p \in DirectDeps(q)
                      /\ p \in Elems(tasks[q].deps)
                      /\ DependenciesRead(q)
    /\ \A p \in Files :
          (main.pc = "returned" /\ Elems(seeds) = {p} /\ fileset[p].imports = <<>>) =>
              \A q \in Files : Queried(q) <=> q = p

\* C21 witness: compile of one file returned; the resolver was asked for the
\* seed and for the file the seed imports, and never for the third file.
C21_Witness ==
    /\ main.pc = "returned"
    /\ \E p \in Files, d \in Files, o \in Files :
          /\ Elems(seeds) = {p}
          /\ DirectDeps(p) = {d} /\ d # p /\ o \notin {p, d}
          /\ runs["parse"][p] = 1
          /\ runs["resolve"][p] = 1 /\ runs["resolve"][d] = 1 /\ runs["resolve"][o] = 0

\* ------------------------------------------------------------- specification
FileInfoInit == \E contents \in SeqsUpTo(PlainBytes, MaxLen) : NewFileInfo(contents)

AddTokenStep ==
    /\ Len(tokens) < MaxTokens
    /\ \E offset \in -1 .. MaxLen + 1, length \in -1 .. MaxTokLen :
          AddToken(offset, length)

AddCommentStep ==
    \E comment \in Handles, attributedTo \in Handles :
        AddComment(comment, attributedTo)

vars == <<fvars, rvars, cvars, pvars>>

\* A lexer building a FileInfo.
Init == FileInfoInit /\ PosIdle /\ ResolverIdle /\ CompilerIdle
Next ==
    \/ AddTokenStep /\ UNCHANGED <<rvars, cvars, pvars>>
    \/ AddCommentStep /\ UNCHANGED <<rvars, cvars, pvars>>
Spec == Init /\ [][Next]_vars

\* A lexer recording lines and tokens of a file with tabs; once the FileInfo
\* is built, a consumer asks for positions.
PosInit == \E contents \in SeqsUpTo(Bytes, MaxLen) : NewFileInfo(contents)

AddLineStep ==
    /\ queried = <<>>
    /\ \E offset \in -1 .. MaxLen + 1 : AddLine(offset)
    /\ UNCHANGED pvars

AddTokenPosStep ==
    /\ queried = <<>>
    /\ Len(tokens) < MaxPosTokens
    /\ \E offset \in -1 .. MaxLen + 1, length \in 0 .. MaxTokLen :
          AddToken(offset, length)
    /\ UNCHANGED pvars

PosStep ==
    /\ queried = <<>>
    /\ \E offset \in -1 .. MaxLen + 1 : PosCall(offset)

InitPos == PosInit /\ PosIdle /\ ResolverIdle /\ CompilerIdle
NextPos ==
    \/ AddLineStep /\ UNCHANGED <<rvars, cvars>>
    \/ AddTokenPosStep /\ UNCHANGED <<rvars, cvars>>
    \/ PosStep /\ UNCHANGED <<rvars, cvars>>
SpecPos == InitPos /\ [][NextPos]_vars

\* The same without tokens: the line table of a file and the positions of
\* its offsets.
NextLines ==
    \/ AddLineStep /\ UNCHANGED <<rvars, cvars>>
    \/ PosStep /\ UNCHANGED <<rvars, cvars>>
SpecLines == InitPos /\ [][NextLines]_vars

\* A lexer recording lines, tokens and comments; its tokens are empty or one
\* byte long.
AddTokenBuildStep ==
    /\ Len(tokens) < MaxPosTokens
    /\ \E offset \in -1 .. MaxLen + 1, length \in 0 .. 1 :
          AddToken(offset, length)

NextBuild ==
    \/ AddLineStep /\ UNCHANGED <<rvars, cvars>>
    \/ AddTokenBuildStep /\ UNCHANGED <<rvars, cvars, pvars>>
    \/ AddCommentStep /\ UNCHANGED <<rvars, cvars, pvars>>
SpecBuild == Init /\ [][NextBuild]_vars

\* One call of FindFileByPath on a resolver.
InitResolver == NewFileInfo(<<>>) /\ PosIdle /\ ResolverInit /\ CompilerIdle
NextResolver ==
    \/ CompositeEnter /\ UNCHANGED <<fvars, cvars, pvars>>
    \/ CompositeIter /\ UNCHANGED <<fvars, cvars, pvars>>
    \/ CompositeExit /\ UNCHANGED <<fvars, cvars, pvars>>
    \/ SourceEnter /\ UNCHANGED <<fvars, cvars, pvars>>
    \/ SourceIter /\ UNCHANGED <<fvars, cvars, pvars>>
    \/ SourceExit /\ UNCHANGED <<fvars, cvars, pvars>>
    \/ StandardQuery /\ UNCHANGED <<fvars, cvars, pvars>>
    \/ StandardReturn /\ UNCHANGED <<fvars, cvars, pvars>>
SpecResolver == InitResolver /\ [][NextResolver]_vars

\* One call of Compile.
InitCompiler == NewFileInfo(<<>>) /\ PosIdle /\ ResolverIdle /\ CompilerInit
NextCompiler ==
    \/ CompileSeed /\ UNCHANGED <<fvars, rvars, pvars>>
    \/ CompileReturn /\ UNCHANGED <<fvars, rvars, pvars>>
    \/ \E p \in DOMAIN tasks : Resolve(p) /\ UNCHANGED <<fvars, rvars, pvars>>
    \/ \E p \in DOMAIN tasks : Parse(p) /\ UNCHANGED <<fvars, rvars, pvars>>
    \/ \E p \in DOMAIN tasks : Lower(p) /\ UNCHANGED <<fvars, rvars, pvars>>
    \/ \E p \in DOMAIN tasks : EnsureDependency(p) /\ UNCHANGED <<fvars, rvars, pvars>>
    \/ \E p \in DOMAIN tasks : DependenciesKnown(p) /\ UNCHANGED <<fvars, rvars, pvars>>
    \/ \E p \in DOMAIN tasks : AwaitDependencies(p) /\ UNCHANGED <<fvars, rvars, pvars>>
    \/ \E p \in DOMAIN tasks : Link(p) /\ UNCHANGED <<fvars, rvars, pvars>>
    \/ \E p \in DOMAIN tasks : Signal(p) /\ UNCHANGED <<fvars, rvars, pvars>>
SpecCompiler == InitCompiler /\ [][NextCompiler]_vars

\* The steps of the worker of p.
Worker(p) ==
    \/ Resolve(p) \/ Parse(p) \/ Lower(p) \/ EnsureDependency(p)
    \/ DependenciesKnown(p) \/ AwaitDependencies(p) \/ Link(p) \/ Signal(p)

\* Fair scheduling: a worker that can take a step is not passed over for
\* ever, and neither is the compile call. A worker that waits for a
\* completion signal holds no thread, so MaxParallelism takes no step away
\* from a worker that can take one.
FairScheduling ==
    /\ WF_cvars(CompileSeed \/ CompileReturn)
    /\ \A p \in Files : WF_cvars(Worker(p))

\* One call of Compile, never cancelled, under fair scheduling.
SpecCompilerFair == InitCompiler /\ [][NextCompiler]_vars /\ FairScheduling

\* One call of Compile over files that may fail or start at a later stage.
InitPipeline == NewFileInfo(<<>>) /\ PosIdle /\ ResolverIdle /\ PipelineInit
SpecPipeline == InitPipeline /\ [][NextCompiler]_vars

\* One call of Compile with or without WithStandardImports around the
\* resolver.
InitStandard ==
    /\ NewFileInfo(<<>>) /\ PosIdle
    /\ path = "x.proto" /\ resolver \in CompilerResolvers /\ pc = "done" /\ idx = 0
    /\ held = Returned(ZeroResult, Nil) /\ calls = <<>> /\ ret = Returned(ZeroResult, Nil)
    /\ StandardInit
SpecStandard == InitStandard /\ [][NextCompiler]_vars
====
